---- MODULE Spec2Model ----
(***************************************************************************)
(* A model of the bencode codec of wwalexander/go-bencode.                 *)
(*                                                                         *)
(* Bytes are one-character strings; a byte string or a stream is a         *)
(* sequence of them (<<"i", "1", "e">> is i1e).  A Go value carries its    *)
(* type, as reflect sees it:                                               *)
(*   [k |-> "int", n]                     int                              *)
(*   [k |-> "string", s]                  string                           *)
(*   [k |-> "bytes", isnil, s]            []byte                           *)
(*   [k |-> "slice", elem, isnil, xs]     []elem                           *)
(*   [k |-> "struct", typ, fs]            a struct of the type named typ   *)
(*   [k |-> "float64"]                    a kind the codec has no case for *)
(* An error is the string "nil", "EOF" (io.EOF), "panic" (a run-time panic) *)
(* or the message of the error.                                            *)
(* The repository holds two revisions of the encoder: the one with the     *)
(* field-name fallback and the options (encode, src/unnamed/part_001), and *)
(* the one that needs a tag on every field (encodeTagged, src/encode.go).  *)
(* It holds two revisions of the decoder as well: Decode (src/decode.go),  *)
(* which goes with the first, and DecodeTagged (src/unnamed/part_003),     *)
(* which goes with the second.                                             *)
(***************************************************************************)
EXTENDS Integers, Sequences, FiniteSets, TLC

VARIABLES
  impl,     \* revision of the codec in use: "fallback" or "tagged"
  w,        \* the io.Writer behind the Encoder: the bytes it has received
  b,        \* Encoder.b: the bytes buffered in the bufio.Writer, not flushed
  encErr,   \* what the last Encode call returned
  encLog,   \* history: one record per Encode call
  r,        \* the io.Reader behind the Decoder: the whole input
  off,      \* Decoder.b: the number of bytes consumed so far
  docs,     \* the values whose encodings were concatenated into r
  calls,    \* the number of Decode calls made
  fit,      \* history: every call so far had a target that fits the value at the cursor
  last,     \* the last Decode call: target type, cursor before it, error, target after it
  pc,       \* position of the Marshal/Unmarshal caller
  v,        \* the value the caller marshals, or holds before it decodes into it
  data,     \* the bytes Marshal returned, or the input the caller decodes
  mErr,     \* the error Marshal returned
  v2,       \* the target after the caller has decoded into it
  uErr      \* the error Unmarshal or Decode returned

vars == <<impl, w, b, encErr, encLog, r, off, docs, calls, fit, last, pc, v, data, mErr, v2, uErr>>
encVars == <<w, b, encErr, encLog>>
decVars == <<r, off, docs, calls, fit, last>>
rtVars == <<pc, v, data, mErr, v2, uErr>>

----------------------------------------------------------------------------
(* Bounds of the model *)

MaxLen == 2      \* longest slice among the values
MaxCalls == 2    \* Encode calls on one Encoder
MaxDocs == 2     \* values concatenated into one input stream

----------------------------------------------------------------------------
(* Bytes *)

\* The bytes the model uses, in ascending order of their value.
Ascii ==
  <<",", "-", "0", "1", "2", "3", "4", "5", "6", "7", "8", "9", ":",
    "A", "B", "C", "D", "E", "F", "G", "H", "I", "J", "K", "L", "M",
    "N", "O", "P", "Q", "R", "S", "T", "U", "V", "W", "X", "Y", "Z",
    "a", "b", "c", "d", "e", "f", "g", "h", "i", "j", "k", "l", "m",
    "n", "o", "p", "q", "r", "s", "t", "u", "v", "w", "x", "y", "z">>

Ord(c) == CHOOSE i \in 1..Len(Ascii) : Ascii[i] = c

Digit == <<"0", "1", "2", "3", "4", "5", "6", "7", "8", "9">>

IsDigit(c) == \E i \in 1..10 : Digit[i] = c

DigitVal(c) == (CHOOSE i \in 1..10 : Digit[i] = c) - 1

\* a < b for Go strings: byte-wise lexicographic
RECURSIVE Less(_, _)
Less(x, y) ==
  IF y = <<>> THEN FALSE
  ELSE IF x = <<>> THEN TRUE
  ELSE IF Head(x) # Head(y) THEN Ord(Head(x)) < Ord(Head(y))
  ELSE Less(Tail(x), Tail(y))

RECURSIVE Insert(_, _)
Insert(x, s) ==
  IF s = <<>> THEN <<x>>
  ELSE IF Less(Head(s), x) THEN <<Head(s)>> \o Insert(x, Tail(s))
  ELSE <<x>> \o s

\* the keys left in declaration order
DeclarationOrder(s) == s

RECURSIVE SortStrings(_)
SortStrings(s) == IF s = <<>> THEN <<>> ELSE Insert(Head(s), SortStrings(Tail(s)))

\* strconv.Itoa
RECURSIVE Digits(_)
Digits(n) == IF n < 10 THEN <<Digit[n + 1]>> ELSE Digits(n \div 10) \o <<Digit[(n % 10) + 1]>>

Itoa(n) == IF n < 0 THEN <<"-">> \o Digits(-n) ELSE Digits(n)

\* strconv.Atoi: an optional sign, then one or more decimal digits
RECURSIVE DigitsVal(_, _)
DigitsVal(s, acc) == IF s = <<>> THEN acc ELSE DigitsVal(Tail(s), 10 * acc + DigitVal(Head(s)))

Atoi(s) ==
  LET signed == s # <<>> /\ Head(s) \in {"-", "+"}
      ds == IF signed THEN Tail(s) ELSE s
  IN  IF ds = <<>> \/ \E i \in 1..Len(ds) : ~IsDigit(ds[i])
      THEN [ok |-> FALSE, n |-> 0]
      ELSE [ok |-> TRUE,
            n |-> IF signed /\ Head(s) = "-" THEN -DigitsVal(ds, 0) ELSE DigitsVal(ds, 0)]

\* strings.Split(s, ",")
RECURSIVE SplitFrom(_, _)
SplitFrom(s, cur) ==
  IF s = <<>> THEN <<cur>>
  ELSE IF Head(s) = "," THEN <<cur>> \o SplitFrom(Tail(s), <<>>)
  ELSE SplitFrom(Tail(s), Append(cur, Head(s)))

Split(s) == SplitFrom(s, <<>>)

----------------------------------------------------------------------------
(* Go types and values *)

IntT == [k |-> "int"]
StringT == [k |-> "string"]
BytesT == [k |-> "bytes"]
FloatT == [k |-> "float64"]
SliceT(elem) == [k |-> "slice", elem |-> elem]
StructT(name) == [k |-> "struct", typ |-> name]

IntV(n) == [k |-> "int", n |-> n]
StringV(s) == [k |-> "string", s |-> s]
BytesV(isnil, s) == [k |-> "bytes", isnil |-> isnil, s |-> s]
FloatV == [k |-> "float64"]
SliceV(elem, isnil, xs) == [k |-> "slice", elem |-> elem, isnil |-> isnil, xs |-> xs]
StructV(name, fs) == [k |-> "struct", typ |-> name, fs |-> fs]

\* A struct field: its declared name, whether its tag has a bencode key and
\* the value under that key, and its type.
Tagged(name, tag, typ) == [name |-> name, hasTag |-> TRUE, tag |-> tag, typ |-> typ]
Untagged(name, typ) == [name |-> name, hasTag |-> FALSE, tag |-> <<>>, typ |-> typ]

omitempty == <<"o", "m", "i", "t", "e", "m", "p", "t", "y">>

\* The struct types of the callers.
StructFields(name) ==
  CASE name = "FizzBuzz" ->
         <<Tagged(<<"F", "i", "z", "z">>, <<"f", "i", "z", "z">>, IntT),
           Tagged(<<"B", "u", "z", "z">>, <<"b", "u", "z", "z">>, IntT)>>
    [] name = "Group" ->
         <<Untagged(<<"N", "a", "m", "e">>, StringT),
           Untagged(<<"I", "D">>, IntT)>>
    [] name = "Opt" ->
         <<Tagged(<<"N">>, <<"n", ",">> \o omitempty, IntT),
           Tagged(<<"S">>, <<"s", ",">> \o omitempty, StringT),
           Tagged(<<"L">>, <<"l", ",">> \o omitempty, SliceT(IntT)),
           Tagged(<<"B">>, <<"b", ",">> \o omitempty, BytesT)>>
    [] name = "Field" ->
         <<Tagged(<<"F", "i", "e", "l", "d">>, <<",">> \o omitempty, IntT),
           Tagged(<<"Z">>, <<"a">>, IntT)>>
    [] name = "Pair" ->
         <<Tagged(<<"A">>, <<",">> \o omitempty, IntT),
           Tagged(<<"B">>, <<",">> \o omitempty, IntT)>>
    [] name = "Outer" ->
         <<Tagged(<<"X", "s">>, <<"x", "s">>, SliceT(IntT)),
           Tagged(<<"I", "n">>, <<"i", "n">>, StructT("FizzBuzz")),
           Tagged(<<"S", "k", "i", "p">>, <<"-">>, IntT)>>
    [] name = "Wide" ->
         <<Tagged(<<"Z">>, <<"z">>, IntT),
           Tagged(<<"L">>, <<"l">>, SliceT(IntT)),
           Tagged(<<"F", "i", "z", "z">>, <<"f", "i", "z", "z">>, IntT),
           Tagged(<<"D">>, <<"d">>, StructT("Outer")),
           Tagged(<<"A">>, <<"a">>, StringT)>>
    [] name = "Fizz" ->
         <<Tagged(<<"F", "i", "z", "z">>, <<"f", "i", "z", "z">>, IntT)>>
    [] name = "Bad" ->
         <<Tagged(<<"A">>, <<"a">>, IntT),
           Tagged(<<"F">>, <<"f">>, FloatT)>>
    [] name = "Priv" ->
         <<Tagged(<<"F", "i", "z", "z">>, <<"f", "i", "z", "z">>, IntT),
           Untagged(<<"p", "r", "i", "v">>, IntT)>>

\* reflect: a field is exported when its name starts with an upper-case letter
Exported(f) == Ord(Head(f.name)) >= Ord("A") /\ Ord(Head(f.name)) <= Ord("Z")

\* reflect.Zero
RECURSIVE Zero(_)
Zero(t) ==
  CASE t.k = "int" -> IntV(0)
    [] t.k = "string" -> StringV(<<>>)
    [] t.k = "bytes" -> BytesV(TRUE, <<>>)
    [] t.k = "slice" -> SliceV(t.elem, TRUE, <<>>)
    [] t.k = "struct" ->
         StructV(t.typ, [i \in 1..Len(StructFields(t.typ)) |-> Zero(StructFields(t.typ)[i].typ)])
    [] OTHER -> FloatV

\* reflect.TypeOf
TypeOf(x) ==
  CASE x.k = "slice" -> SliceT(x.elem)
    [] x.k = "struct" -> StructT(x.typ)
    [] OTHER -> [k |-> x.k]

\* reflect.DeepEqual on two values of one type: values are kept in one
\* representation (a nil slice has isnil and no elements), so it is equality;
\* a nil slice and an allocated empty slice differ.
DeepEqual(x, y) == x = y

----------------------------------------------------------------------------
(* bufio.Writer: e is [w, b, err], the sink, the buffer and the error.     *)
(* The values of the model stay far below the 4096-byte buffer, so a Write *)
(* never flushes by itself.                                                *)

Write(e, p) == [e EXCEPT !.b = @ \o p]

Flush(e) == [e EXCEPT !.w = @ \o e.b, !.b = <<>>]

Fail(e, err) == [e EXCEPT !.err = err]

encodeString(e, s) == Write(Write(Write(e, Itoa(Len(s))), <<":">>), s)

----------------------------------------------------------------------------
(* Encoder, the revision with the field-name fallback and the tag options. *)
(* A step that uses the result of a call more than once binds it as the    *)
(* parameter of a local operator.                                          *)

RECURSIVE encode(_, _)

\* the loop over the fields of a struct: acc is [names, fields, err], the
\* keys in declaration order, the field index of each key, and "panic" when
\* reflect refuses to hand out an unexported field
RECURSIVE collect(_, _, _)
collect(x, i, acc) ==
  LET add(name) ==
        collect(x, i + 1,
                [acc EXCEPT !.names = Append(@, name), !.fields = (name :> i) @@ @])
      options(field, strs) ==
        IF omitempty \in {strs[j] : j \in 2..Len(strs)}
        THEN IF ~Exported(field) THEN [acc EXCEPT !.err = "panic"]
             ELSE IF DeepEqual(x.fs[i], Zero(field.typ)) THEN collect(x, i + 1, acc)
             ELSE add(strs[1])
        ELSE add(strs[1])
      lookup(field) ==
        IF ~field.hasTag THEN add(field.name)
        ELSE IF field.tag = <<"-">> THEN collect(x, i + 1, acc)
        ELSE options(field, Split(field.tag))
  IN  IF i > Len(x.fs) THEN acc ELSE lookup(StructFields(x.typ)[i])

\* for i := 0; i < val.Len(); i++ { enc.Encode(elem) }
RECURSIVE encodeElems(_, _)
encodeElems(e, xs) ==
  LET rest(e1) == IF e1.err # "nil" THEN e1 ELSE encodeElems(e1, Tail(xs))
  IN  IF xs = <<>> THEN e ELSE rest(encode(e, Head(xs)))

\* for _, name := range names { enc.Encode([]byte(name)); enc.Encode(field) }
RECURSIVE encodeEntries(_, _, _, _)
encodeEntries(e, x, names, fields) ==
  LET rest(e2) == IF e2.err # "nil" THEN e2 ELSE encodeEntries(e2, x, Tail(names), fields)
      value(e1, i) ==
        IF e1.err # "nil" THEN e1
        ELSE IF ~Exported(StructFields(x.typ)[i]) THEN Fail(e1, "panic")
        ELSE rest(encode(e1, x.fs[i]))
  IN  IF names = <<>> THEN e
      ELSE value(encode(e, BytesV(FALSE, Head(names))), fields[Head(names)])

\* the switch of Encoder.encode
encodeSwitch(e, x) ==
  LET close(e1) == IF e1.err # "nil" THEN e1 ELSE Write(e1, <<"e">>)
      dict(e1, c) ==
        IF c.err # "nil" THEN Fail(e1, c.err)
        ELSE close(encodeEntries(e1, x, SortStrings(c.names), c.fields))
  IN  CASE x.k = "string" -> encodeString(e, x.s)
        [] x.k = "bytes" -> encodeString(e, x.s)
        [] x.k = "int" -> Write(Write(Write(e, <<"i">>), Itoa(x.n)), <<"e">>)
        [] x.k = "slice" -> close(encodeElems(Write(e, <<"l">>), x.xs))
        [] x.k = "struct" ->
             dict(Write(e, <<"d">>),
                  collect(x, 1, [names |-> <<>>, fields |-> <<>>, err |-> "nil"]))
        [] OTHER -> Fail(e, "unsupported type")

\* Encoder.encode: the deferred function flushes when err is nil, which it
\* is on a normal return without error and also while a panic unwinds
encode(e, x) ==
  LET deferred(e1) == IF e1.err \in {"nil", "panic"} THEN Flush(e1) ELSE e1
  IN  deferred(encodeSwitch(e, x))

----------------------------------------------------------------------------
(* Encoder, the revision that encodes tagged fields only *)

RECURSIVE encodeTagged(_, _)

\* the loop over the fields: the whole tag value is the key
RECURSIVE collectTagged(_, _, _)
collectTagged(x, i, acc) ==
  LET lookup(field) ==
        IF ~field.hasTag THEN collectTagged(x, i + 1, acc)
        ELSE collectTagged(x, i + 1,
               [acc EXCEPT !.names = Append(@, field.tag),
                           !.fields = (field.tag :> i) @@ @])
  IN  IF i > Len(x.fs) THEN acc ELSE lookup(StructFields(x.typ)[i])

RECURSIVE encodeTaggedElems(_, _)
encodeTaggedElems(e, xs) ==
  LET rest(e1) == IF e1.err # "nil" THEN e1 ELSE encodeTaggedElems(e1, Tail(xs))
  IN  IF xs = <<>> THEN e ELSE rest(encodeTagged(e, Head(xs)))

RECURSIVE encodeTaggedEntries(_, _, _, _)
encodeTaggedEntries(e, x, names, fields) ==
  LET rest(e2) ==
        IF e2.err # "nil" THEN e2 ELSE encodeTaggedEntries(e2, x, Tail(names), fields)
      value(e1, i) ==
        IF e1.err # "nil" THEN e1
        ELSE IF ~Exported(StructFields(x.typ)[i]) THEN Fail(e1, "panic")
        ELSE rest(encodeTagged(e1, x.fs[i]))
  IN  IF names = <<>> THEN e
      ELSE value(encodeTagged(e, BytesV(FALSE, Head(names))), fields[Head(names)])

encodeTaggedSwitch(e, x) ==
  LET close(e1) == IF e1.err # "nil" THEN e1 ELSE Write(e1, <<"e">>)
      dict(e1, c) == close(encodeTaggedEntries(e1, x, SortStrings(c.names), c.fields))
  IN  CASE x.k = "bytes" -> encodeString(e, x.s)
        [] x.k = "int" -> Write(Write(Write(e, <<"i">>), Itoa(x.n)), <<"e">>)
        [] x.k = "slice" -> close(encodeTaggedElems(Write(e, <<"l">>), x.xs))
        [] x.k = "struct" ->
             dict(Write(e, <<"d">>),
                  collectTagged(x, 1, [names |-> <<>>, fields |-> <<>>, err |-> "nil"]))
        [] OTHER -> Fail(e, "unsupported type")

encodeTagged(e, x) ==
  LET deferred(e1) == IF e1.err \in {"nil", "panic"} THEN Flush(e1) ELSE e1
  IN  deferred(encodeTaggedSwitch(e, x))

\* Encoder.Encode of the revision in use, on an Encoder whose sink holds
\* sink and whose buffer holds buf
Encode(rev, sink, buf, x) ==
  IF rev = "fallback" THEN encode([w |-> sink, b |-> buf, err |-> "nil"], x)
  ELSE encodeTagged([w |-> sink, b |-> buf, err |-> "nil"], x)

\* Marshal: a new buffer, a new Encoder, one Encode; the bytes of the buffer
\* when Encode returns no error
Marshal(rev, x) ==
  LET return(e) ==
        IF e.err # "nil" THEN [data |-> <<>>, err |-> e.err]
        ELSE [data |-> e.w, err |-> "nil"]
  IN  return(Encode(rev, <<>>, <<>>, x))

----------------------------------------------------------------------------
(* bufio.Reader: d is [r, off, err], the input, the number of bytes        *)
(* consumed and the error.  A read past the end consumes what is left and  *)
(* returns io.EOF, written "EOF".                                          *)

Remaining(d) == Len(d.r) - d.off

\* Peek(1): the next byte, io.EOF when there is none
Peek(d) == IF Remaining(d) = 0 THEN [d EXCEPT !.err = "EOF"] ELSE d

PeekByte(d) == d.r[d.off + 1]

ReadByte(d) ==
  IF Remaining(d) = 0 THEN [d EXCEPT !.err = "EOF"] ELSE [d EXCEPT !.off = @ + 1]

\* ReadBytes(delim): the bytes up to and including the first delim, or all
\* the bytes left and io.EOF when no delim follows
ReadBytes(d, delim) ==
  LET hits == {i \in (d.off + 1)..Len(d.r) : d.r[i] = delim}
      end == CHOOSE i \in hits : \A j \in hits : i <= j
  IN  IF hits = {}
      THEN [d |-> [d EXCEPT !.off = Len(d.r), !.err = "EOF"],
            s |-> SubSeq(d.r, d.off + 1, Len(d.r))]
      ELSE [d |-> [d EXCEPT !.off = end], s |-> SubSeq(d.r, d.off + 1, end)]

\* Discard(n) for n >= 0: skips n bytes, or all the bytes left and io.EOF
Discard(d, n) ==
  IF n <= Remaining(d) THEN [d EXCEPT !.off = @ + n]
  ELSE [d EXCEPT !.off = Len(d.r), !.err = "EOF"]

----------------------------------------------------------------------------
(* Decoder.  A step that uses the result of a call more than once binds    *)
(* it as the parameter of a local operator.                                *)

decodeInteger(d, delim) ==
  LET parse(rb, a) ==
        IF rb.d.err # "nil" THEN [d |-> rb.d, n |-> 0]
        ELSE IF ~a.ok THEN [d |-> [rb.d EXCEPT !.err = "invalid syntax"], n |-> 0]
        ELSE [d |-> rb.d, n |-> a.n]
      strip(rb) == parse(rb, Atoi(SubSeq(rb.s, 1, Len(rb.s) - 1)))
  IN  strip(ReadBytes(d, delim))

\* make([]byte, length) panics on a negative length; the loop of Read calls
\* ends with the length bytes read, or with io.EOF once the input is used up
decodeString(d) ==
  LET read(di) ==
        IF di.d.err # "nil" THEN [d |-> di.d, s |-> <<>>]
        ELSE IF di.n < 0 THEN [d |-> [di.d EXCEPT !.err = "panic"], s |-> <<>>]
        ELSE IF di.n > Remaining(di.d)
        THEN [d |-> [di.d EXCEPT !.off = Len(di.d.r), !.err = "EOF"], s |-> <<>>]
        ELSE [d |-> [di.d EXCEPT !.off = @ + di.n],
              s |-> SubSeq(di.d.r, di.d.off + 1, di.d.off + di.n)]
  IN  read(decodeInteger(d, ":"))

\* next with ReadByte in place of Peek: the byte is consumed whether or not it is c
nextConsuming(d, c) ==
  IF Peek(d).err # "nil" THEN [d |-> Peek(d), ok |-> FALSE]
  ELSE [d |-> ReadByte(d), ok |-> PeekByte(d) = c]

next(d, c) ==
  IF Peek(d).err # "nil" THEN [d |-> Peek(d), ok |-> FALSE]
  ELSE IF PeekByte(d) # c THEN [d |-> d, ok |-> FALSE]
  ELSE [d |-> ReadByte(d), ok |-> TRUE]

RECURSIVE discard(_)

\* the loop of the list case
RECURSIVE discardList(_)
discardList(d) ==
  LET again(d1) == IF d1.err # "nil" THEN d1 ELSE discardList(d1)
      step(nx) ==
        IF nx.d.err # "nil" THEN nx.d
        ELSE IF nx.ok THEN nx.d
        ELSE again(discard(nx.d))
  IN  step(next(d, "e"))

\* the loop of the dictionary case
RECURSIVE discardDict(_)
discardDict(d) ==
  LET again(d2) == IF d2.err # "nil" THEN d2 ELSE discardDict(d2)
      value(d1) == IF d1.err # "nil" THEN d1 ELSE again(discard(d1))
      step(nx) ==
        IF nx.d.err # "nil" THEN nx.d
        ELSE IF nx.ok THEN nx.d
        ELSE value(discard(nx.d))
  IN  step(next(d, "e"))

\* the byte-string case without the Discard of the payload
discardLengthOnly(d) ==
  LET skip(di) == di.d
  IN  skip(decodeInteger(d, ":"))

\* the byte-string case: ReadBytes(':'), Atoi, Discard(n)
discardString(d) ==
  LET skip(di) == IF di.d.err # "nil" THEN di.d ELSE Discard(di.d, di.n)
  IN  skip(decodeInteger(d, ":"))

discard(d) ==
  IF Peek(d).err # "nil" THEN Peek(d)
  ELSE CASE IsDigit(PeekByte(d)) -> discardString(d)
         [] PeekByte(d) = "i" -> ReadBytes(d, "e").d
         [] PeekByte(d) = "l" -> discardList(ReadByte(d))
         [] PeekByte(d) = "d" -> discardDict(ReadByte(d))
         [] OTHER -> [d EXCEPT !.err = "invalid character looking for beginning of value"]

\* the map from key to field index that Decode builds for a struct type
RECURSIVE fieldMap(_, _, _)
fieldMap(typ, i, fields) ==
  LET add(field) ==
        IF field.hasTag /\ field.tag = <<"-">> THEN fieldMap(typ, i + 1, fields)
        ELSE IF field.hasTag
        THEN fieldMap(typ, i + 1, (Split(field.tag)[1] :> i) @@ fields)
        ELSE fieldMap(typ, i + 1, (field.name :> i) @@ fields)
  IN  IF i > Len(StructFields(typ)) THEN fields ELSE add(StructFields(typ)[i])

RECURSIVE Decode(_, _)

\* the loop of the slice case: x is the target, which every append updates
RECURSIVE decodeList(_, _)
decodeList(d, x) ==
  LET append(el) ==
        IF el.d.err # "nil" THEN [d |-> el.d, val |-> x]
        ELSE decodeList(el.d, [x EXCEPT !.isnil = FALSE, !.xs = Append(@, el.val)])
      step(nx) ==
        IF nx.d.err # "nil" THEN [d |-> nx.d, val |-> x]
        ELSE IF nx.ok THEN [d |-> nx.d, val |-> x]
        ELSE append(Decode(nx.d, Zero(x.elem)))
  IN  step(next(d, "e"))

\* the loop of the struct case: x is the target, whose fields are set in place
RECURSIVE decodeDict(_, _, _)
decodeDict(d, x, fields) ==
  LET skipped(d1) ==
        IF d1.err # "nil" THEN [d |-> d1, val |-> x] ELSE decodeDict(d1, x, fields)
      set(i, fv) ==
        IF fv.d.err # "nil" THEN [d |-> fv.d, val |-> [x EXCEPT !.fs[i] = fv.val]]
        ELSE decodeDict(fv.d, [x EXCEPT !.fs[i] = fv.val], fields)
      field(kd, i) ==
        IF ~Exported(StructFields(x.typ)[i])
        THEN [d |-> [kd EXCEPT !.err = "panic"], val |-> x]
        ELSE set(i, Decode(kd, x.fs[i]))
      entry(key) ==
        IF key.d.err # "nil" THEN [d |-> key.d, val |-> x]
        ELSE IF key.s \notin DOMAIN fields THEN skipped(discard(key.d))
        ELSE field(key.d, fields[key.s])
      step(nx) ==
        IF nx.d.err # "nil" THEN [d |-> nx.d, val |-> x]
        ELSE IF nx.ok THEN [d |-> nx.d, val |-> x]
        ELSE entry(decodeString(nx.d))
  IN  step(next(d, "e"))

\* Decoder.Decode(&x): the decoder after the call and the value of x.  The
\* callers always pass a pointer, and the integers stay within an int.
Decode(d, x) ==
  LET bytes(ds) ==
        IF ds.d.err # "nil" THEN [d |-> ds.d, val |-> x]
        ELSE [d |-> ds.d, val |-> BytesV(FALSE, ds.s)]
      string(ds) ==
        IF ds.d.err # "nil" THEN [d |-> ds.d, val |-> x]
        ELSE [d |-> ds.d, val |-> StringV(ds.s)]
      digits(di) ==
        IF di.d.err # "nil" THEN [d |-> di.d, val |-> x]
        ELSE [d |-> di.d, val |-> IntV(di.n)]
      int(nx) ==
        IF nx.d.err # "nil" THEN [d |-> nx.d, val |-> x]
        ELSE IF ~nx.ok
        THEN [d |-> [d EXCEPT !.err = "cannot unmarshal into Go value of type int"],
              val |-> x]
        ELSE digits(decodeInteger(nx.d, "e"))
      slice(nx) ==
        IF nx.d.err # "nil" THEN [d |-> nx.d, val |-> x]
        ELSE IF ~nx.ok
        THEN [d |-> [d EXCEPT !.err = "cannot unmarshal into Go slice"], val |-> x]
        ELSE decodeList(nx.d, IF Len(x.xs) > 0 THEN [x EXCEPT !.xs = <<>>] ELSE x)
      struct(nx) ==
        IF nx.d.err # "nil" THEN [d |-> nx.d, val |-> x]
        ELSE IF ~nx.ok
        THEN [d |-> [d EXCEPT !.err = "cannot unmarshal into Go struct"], val |-> x]
        ELSE decodeDict(nx.d, x, fieldMap(x.typ, 1, <<>>))
  IN  CASE x.k = "bytes" -> bytes(decodeString(d))
        [] x.k = "string" -> string(decodeString(d))
        [] x.k = "int" -> int(next(d, "i"))
        [] x.k = "slice" -> slice(next(d, "l"))
        [] x.k = "struct" -> struct(next(d, "d"))
        [] OTHER -> [d |-> [d EXCEPT !.err = "unsupported type"], val |-> x]

\* Unmarshal(data, &x): a new Decoder on data, one Decode
Unmarshal(bytes, x) == Decode([r |-> bytes, off |-> 0, err |-> "nil"], x)

----------------------------------------------------------------------------
(* Decoder, the revision of src/unnamed/part_003, which goes with the      *)
(* encoder for tagged fields: no case for string, no default case in       *)
(* Decode or in discard, the whole tag value is the key, and the slice     *)
(* case appends to the target as it is.  A loop whose iteration consumes   *)
(* no byte and returns no error runs forever: the error is then "hang".    *)

RECURSIVE discardTagged(_)

RECURSIVE discardTaggedList(_)
discardTaggedList(d) ==
  LET again(d0, d1) ==
        IF d1.err # "nil" THEN d1
        ELSE IF d1.off = d0.off THEN [d1 EXCEPT !.err = "hang"]
        ELSE discardTaggedList(d1)
      step(nx) ==
        IF nx.d.err # "nil" THEN nx.d
        ELSE IF nx.ok THEN nx.d
        ELSE again(nx.d, discardTagged(nx.d))
  IN  step(next(d, "e"))

RECURSIVE discardTaggedDict(_)
discardTaggedDict(d) ==
  LET again(d0, d2) ==
        IF d2.err # "nil" THEN d2
        ELSE IF d2.off = d0.off THEN [d2 EXCEPT !.err = "hang"]
        ELSE discardTaggedDict(d2)
      value(d0, d1) == IF d1.err # "nil" THEN d1 ELSE again(d0, discardTagged(d1))
      step(nx) ==
        IF nx.d.err # "nil" THEN nx.d
        ELSE IF nx.ok THEN nx.d
        ELSE value(nx.d, discardTagged(nx.d))
  IN  step(next(d, "e"))

\* discard without a default case: a byte that starts no value is left alone
discardTagged(d) ==
  IF Peek(d).err # "nil" THEN Peek(d)
  ELSE CASE IsDigit(PeekByte(d)) -> discardString(d)
         [] PeekByte(d) = "i" -> ReadBytes(d, "e").d
         [] PeekByte(d) = "l" -> discardTaggedList(ReadByte(d))
         [] PeekByte(d) = "d" -> discardTaggedDict(ReadByte(d))
         [] OTHER -> d

\* name := field.Tag.Get("bencode"); a field with no tag or an empty one is left out
RECURSIVE fieldMapTagged(_, _, _)
fieldMapTagged(typ, i, fields) ==
  LET add(field) ==
        IF ~field.hasTag \/ field.tag = <<>> THEN fieldMapTagged(typ, i + 1, fields)
        ELSE fieldMapTagged(typ, i + 1, (field.tag :> i) @@ fields)
  IN  IF i > Len(StructFields(typ)) THEN fields ELSE add(StructFields(typ)[i])

RECURSIVE DecodeTagged(_, _)

\* the loop of the slice case
RECURSIVE decodeTaggedList(_, _)
decodeTaggedList(d, x) ==
  LET append(d0, el) ==
        IF el.d.err # "nil" THEN [d |-> el.d, val |-> x]
        ELSE IF el.d.off = d0.off THEN [d |-> [el.d EXCEPT !.err = "hang"], val |-> x]
        ELSE decodeTaggedList(el.d, [x EXCEPT !.isnil = FALSE, !.xs = Append(@, el.val)])
      step(nx) ==
        IF nx.d.err # "nil" THEN [d |-> nx.d, val |-> x]
        ELSE IF nx.ok THEN [d |-> nx.d, val |-> x]
        ELSE append(nx.d, DecodeTagged(nx.d, Zero(x.elem)))
  IN  step(next(d, "e"))

\* the loop of the struct case
RECURSIVE decodeTaggedDict(_, _, _)
decodeTaggedDict(d, x, fields) ==
  LET skipped(d1) ==
        IF d1.err # "nil" THEN [d |-> d1, val |-> x] ELSE decodeTaggedDict(d1, x, fields)
      set(i, fv) ==
        IF fv.d.err # "nil" THEN [d |-> fv.d, val |-> [x EXCEPT !.fs[i] = fv.val]]
        ELSE decodeTaggedDict(fv.d, [x EXCEPT !.fs[i] = fv.val], fields)
      field(kd, i) ==
        IF ~Exported(StructFields(x.typ)[i])
        THEN [d |-> [kd EXCEPT !.err = "panic"], val |-> x]
        ELSE set(i, DecodeTagged(kd, x.fs[i]))
      entry(key) ==
        IF key.d.err # "nil" THEN [d |-> key.d, val |-> x]
        ELSE IF key.s \notin DOMAIN fields THEN skipped(discardTagged(key.d))
        ELSE field(key.d, fields[key.s])
      step(nx) ==
        IF nx.d.err # "nil" THEN [d |-> nx.d, val |-> x]
        ELSE IF nx.ok THEN [d |-> nx.d, val |-> x]
        ELSE entry(decodeString(nx.d))
  IN  step(next(d, "e"))

\* Decoder.Decode(&x) of this revision
DecodeTagged(d, x) ==
  LET bytes(ds) ==
        IF ds.d.err # "nil" THEN [d |-> ds.d, val |-> x]
        ELSE [d |-> ds.d, val |-> BytesV(FALSE, ds.s)]
      digits(di) ==
        IF di.d.err # "nil" THEN [d |-> di.d, val |-> x]
        ELSE [d |-> di.d, val |-> IntV(di.n)]
      int(nx) ==
        IF nx.d.err # "nil" THEN [d |-> nx.d, val |-> x]
        ELSE IF ~nx.ok THEN [d |-> [d EXCEPT !.err = "invalid prefix for int"], val |-> x]
        ELSE digits(decodeInteger(nx.d, "e"))
      slice(nx) ==
        IF nx.d.err # "nil" THEN [d |-> nx.d, val |-> x]
        ELSE IF ~nx.ok THEN [d |-> [d EXCEPT !.err = "invalid prefix for list"], val |-> x]
        ELSE decodeTaggedList(nx.d, x)
      struct(nx) ==
        IF nx.d.err # "nil" THEN [d |-> nx.d, val |-> x]
        ELSE IF ~nx.ok
        THEN [d |-> [d EXCEPT !.err = "invalid prefix for dictionary"], val |-> x]
        ELSE decodeTaggedDict(nx.d, x, fieldMapTagged(x.typ, 1, <<>>))
  IN  CASE x.k = "bytes" -> bytes(decodeString(d))
        [] x.k = "int" -> int(next(d, "i"))
        [] x.k = "slice" -> slice(next(d, "l"))
        [] x.k = "struct" -> struct(next(d, "d"))
        [] OTHER -> [d |-> d, val |-> x]

\* NewDecoder(bytes.NewReader(data)).Decode(&x) with the Decoder of the
\* revision in use
DecodeBytes(rev, bytes, x) ==
  IF rev = "fallback" THEN Unmarshal(bytes, x)
  ELSE DecodeTagged([r |-> bytes, off |-> 0, err |-> "nil"], x)

----------------------------------------------------------------------------
(* The values the callers encode *)

SeqsUpTo(S, n) == UNION {[1..m -> S] : m \in 0..n}

\* a []int as a caller builds it: nil, or allocated with its elements
IntSlice(xs) == SliceV(IntT, FALSE, [i \in 1..Len(xs) |-> IntV(xs[i])])

NilIntSlice == SliceV(IntT, TRUE, <<>>)

FizzBuzzV(fizz, buzz) == StructV("FizzBuzz", <<IntV(fizz), IntV(buzz)>>)

OuterV(xs, in) == StructV("Outer", <<xs, in, IntV(0)>>)

Scalars ==
  {IntV(n) : n \in {-10, -1, 0, 10}}
    \cup {StringV(<<>>), StringV(<<"a", "b">>), StringV(<<"i", "1", "e">>)}
    \cup {BytesV(TRUE, <<>>), BytesV(FALSE, <<>>), BytesV(FALSE, <<"3", ":", "a">>)}

Slices ==
  {IntSlice(xs) : xs \in SeqsUpTo({-1, 0, 10}, MaxLen)}
    \cup {NilIntSlice,
          SliceV(StringT, FALSE, <<StringV(<<"a">>), StringV(<<>>)>>),
          SliceV(SliceT(IntT), FALSE, <<IntSlice(<<1>>), NilIntSlice>>),
          SliceV(StructT("FizzBuzz"), FALSE, <<FizzBuzzV(3, 5), FizzBuzzV(0, 0)>>)}

Structs ==
  {FizzBuzzV(3, 5), FizzBuzzV(0, -1)}
    \cup {StructV("Group", <<StringV(s), IntV(n)>>) :
            s \in {<<>>, <<"R", "e", "d", "s">>}, n \in {0, 1}}
    \cup {StructV("Opt", <<IntV(n), StringV(s), l, bs>>) :
            n \in {0, 1}, s \in {<<>>, <<"x">>},
            l \in {NilIntSlice, IntSlice(<<>>), IntSlice(<<1>>)},
            bs \in {BytesV(TRUE, <<>>), BytesV(FALSE, <<>>), BytesV(FALSE, <<"x">>)}}
    \cup {StructV("Field", <<IntV(n), IntV(z)>>) : n \in {0, 5}, z \in {0, 1}}
    \cup {StructV("Pair", <<IntV(x), IntV(y)>>) : x \in {0, 1}, y \in {0, 2}}
    \cup {OuterV(NilIntSlice, FizzBuzzV(0, 0)), OuterV(IntSlice(<<1, 10>>), FizzBuzzV(3, 5))}
    \cup {StructV("Wide", <<IntV(z), IntSlice(<<0, 1>>), IntV(3),
                            OuterV(IntSlice(<<-1>>), FizzBuzzV(3, 5)), StringV(<<"e">>)>>) :
            z \in {0, 26}}

Unsupported ==
  {FloatV,
   SliceV(FloatT, FALSE, <<FloatV>>),
   StructV("Bad", <<IntV(1), FloatV>>),
   SliceV(StructT("Bad"), FALSE, <<StructV("Bad", <<IntV(1), FloatV>>)>>)}

Values == Scalars \cup Slices \cup Structs \cup Unsupported

\* the values one Encoder is handed in a row
EncValues ==
  {IntV(-10), IntV(0), StringV(<<"a", "b">>), BytesV(FALSE, <<"a">>),
   NilIntSlice, IntSlice(<<1, 10>>), FizzBuzzV(3, 5),
   StructV("Group", <<StringV(<<"E", "d">>), IntV(1)>>)}
    \cup Unsupported

Revisions == {"fallback", "tagged"}

NoCall == [typ |-> IntT, start |-> 0, err |-> "nil", val |-> IntV(0)]

----------------------------------------------------------------------------
(* One Encoder on one sink, handed one value after the other *)

InitEnc ==
  /\ impl \in Revisions
  /\ w = <<>> /\ b = <<>> /\ encErr = "nil" /\ encLog = <<>>
  /\ r = <<>> /\ off = 0 /\ docs = <<>> /\ calls = 0 /\ fit = TRUE /\ last = NoCall
  /\ pc = "idle" /\ v = IntV(0) /\ data = <<>> /\ mErr = "nil"
  /\ v2 = IntV(0) /\ uErr = "nil"

\* enc.Encode(x)
EncodeCall(x) ==
  /\ Len(encLog) < MaxCalls
  /\ LET return(e) ==
           /\ w' = e.w
           /\ b' = e.b
           /\ encErr' = e.err
           /\ encLog' = Append(encLog, [x |-> x, err |-> e.err, before |-> w])
     IN  return(Encode(impl, w, b, x))
  /\ UNCHANGED <<impl, decVars, rtVars>>

NextEnc == \E x \in EncValues : EncodeCall(x)

SpecEnc == InitEnc /\ [][NextEnc]_vars

----------------------------------------------------------------------------
(* A caller that marshals a value and unmarshals the bytes into a fresh    *)
(* value of the same type                                                  *)

InitRT ==
  /\ impl \in Revisions
  /\ pc = "marshal" /\ v \in Values /\ data = <<>> /\ mErr = "nil"
  /\ v2 = IntV(0) /\ uErr = "nil"
  /\ w = <<>> /\ b = <<>> /\ encErr = "nil" /\ encLog = <<>>
  /\ r = <<>> /\ off = 0 /\ docs = <<>> /\ calls = 0 /\ fit = TRUE /\ last = NoCall

\* data, err := Marshal(v)
MarshalCall ==
  /\ pc = "marshal"
  /\ LET return(m) ==
           /\ data' = m.data
           /\ mErr' = m.err
           /\ pc' = IF m.err = "nil" THEN "unmarshal" ELSE "done"
     IN  return(Marshal(impl, v))
  /\ UNCHANGED <<impl, v, v2, uErr, encVars, decVars>>

\* var v2 T; err := Unmarshal(data, &v2)
UnmarshalCall ==
  /\ pc = "unmarshal"
  /\ LET return(u) ==
           /\ v2' = u.val
           /\ uErr' = u.d.err
     IN  return(Unmarshal(data, Zero(TypeOf(v))))
  /\ pc' = "done"
  /\ UNCHANGED <<impl, v, data, mErr, encVars, decVars>>

NextRT == MarshalCall \/ UnmarshalCall

SpecRT == InitRT /\ [][NextRT]_vars

----------------------------------------------------------------------------
(* One Decoder on a stream of values written back to back, which may stop  *)
(* short inside its last value                                             *)

\* the values of the stream, as a decoder leaves them in a fresh target
DocValues ==
  {IntV(-10), IntV(0), StringV(<<>>), StringV(<<"a", "b">>), BytesV(FALSE, <<"3", ":", "a">>),
   NilIntSlice, IntSlice(<<1, 10>>), FizzBuzzV(3, 5),
   StructV("Wide", <<IntV(26), IntSlice(<<0, 1>>), IntV(3),
                     OuterV(IntSlice(<<-1>>), FizzBuzzV(3, 5)), StringV(<<"e">>)>>)}

Targets ==
  {IntT, StringT, BytesT, SliceT(IntT), StructT("FizzBuzz"), StructT("Fizz"), StructT("Wide")}

RECURSIVE Stream(_)
Stream(ds) ==
  IF ds = <<>> THEN <<>> ELSE Marshal("fallback", Head(ds)).data \o Stream(Tail(ds))

\* the offset at which the i-th value of the stream ends
End(i) == Len(Stream(SubSeq(docs, 1, i)))

InitDec ==
  /\ impl = "fallback"
  /\ docs \in SeqsUpTo(DocValues, MaxDocs)
  /\ LET prefixes(full, whole) ==
           \E cut \in 0..Len(full) :
             /\ Len(docs) > 0 => cut > whole
             /\ r = SubSeq(full, 1, cut)
     IN  prefixes(Stream(docs), Len(Stream(SubSeq(docs, 1, Len(docs) - 1))))
  /\ off = 0 /\ calls = 0 /\ fit = TRUE /\ last = NoCall
  /\ w = <<>> /\ b = <<>> /\ encErr = "nil" /\ encLog = <<>>
  /\ pc = "idle" /\ v = IntV(0) /\ data = <<>> /\ mErr = "nil"
  /\ v2 = IntV(0) /\ uErr = "nil"

\* a target of type t fits the value x on the wire: the same type, or a
\* struct that maps only the key fizz of a dictionary that has more keys
Fits(t, x) ==
  \/ t = TypeOf(x)
  \/ t = StructT("Fizz") /\ x.k = "struct" /\ x.typ \in {"FizzBuzz", "Wide"}

\* var x T; err := dec.Decode(&x); the caller goes on while Decode succeeds
DecodeCall(t) ==
  /\ calls <= Len(docs)
  /\ last.err = "nil"
  /\ LET return(res) ==
           /\ off' = res.d.off
           /\ last' = [typ |-> t, start |-> off, err |-> res.d.err, val |-> res.val]
     IN  return(Decode([r |-> r, off |-> off, err |-> "nil"], Zero(t)))
  /\ calls' = calls + 1
  /\ fit' = (fit /\ (calls < Len(docs) => Fits(t, docs[calls + 1])))
  /\ UNCHANGED <<impl, r, docs, encVars, rtVars>>

NextDec == \E t \in Targets : DecodeCall(t)

SpecDec == InitDec /\ [][NextDec]_vars

----------------------------------------------------------------------------
(* A caller that holds a value, which may already have elements, writes it *)
(* out with Marshal, and decodes an input, well formed or not, into it     *)

PrivV(fizz, priv) == StructV("Priv", <<IntV(fizz), IntV(priv)>>)

OptV(n, s) == StructV("Opt", <<IntV(n), StringV(s), NilIntSlice, BytesV(TRUE, <<>>)>>)

\* the values the caller holds before the call
Held ==
  {IntV(7), StringV(<<"a", "b">>), StringV(<<>>), BytesV(FALSE, <<"a", "b">>),
   BytesV(TRUE, <<>>), NilIntSlice, IntSlice(<<5>>), IntSlice(<<5, 6>>),
   SliceV(StringT, FALSE, <<StringV(<<"a">>)>>),
   SliceV(BytesT, FALSE, <<BytesV(FALSE, <<"a">>)>>),
   FizzBuzzV(1, 2), OuterV(IntSlice(<<5>>), FizzBuzzV(1, 2)),
   OuterV(NilIntSlice, FizzBuzzV(0, 0)), OptV(1, <<"x">>), PrivV(1, 2)}

\* the lists and the dictionaries with a list that arrive well formed
WireValues ==
  {IntSlice(xs) : xs \in SeqsUpTo({0, 10}, MaxLen)}
    \cup {SliceV(BytesT, FALSE, <<BytesV(FALSE, <<"b">>), BytesV(FALSE, <<>>)>>)}
    \cup {OuterV(IntSlice(xs), FizzBuzzV(3, 5)) : xs \in SeqsUpTo({0, 10}, MaxLen)}

\* inputs that are no encoding of a value of the target's type, or of none
Malformed ==
  {<<>>, <<"x">>, <<"e">>, <<"i", "1", "e">>, <<"i", "x", "e">>, <<"d", "e">>,
   <<"1", ":", "a">>, <<"0", ":">>, <<"2", ":", "a">>, <<"-", "1", ":">>,
   <<"-", "0", ":">>, <<"l", "-", "1", ":", "e">>, <<"l", "1", ":", "a", "e">>,
   <<"d", "-", "1", ":", "i", "1", "e", "e">>,
   <<"d", "1", ":", "s", "-", "1", ":", "e">>,
   <<"d", "1", ":", "s", "1", ":", "y", "e">>,
   <<"d", "4", ":", "p", "r", "i", "v", "i", "9", "e", "e">>,
   <<"d", "4", ":", "f", "i", "z", "z", "i", "3", "e",
     "4", ":", "p", "r", "i", "v", "i", "9", "e", "e">>,
   <<"d", "4", ":", "f", "i", "z", "z", "i", "3", "e", "e">>}

Inputs == {Marshal("fallback", x).data : x \in WireValues} \cup Malformed

InitInto ==
  /\ impl \in Revisions
  /\ pc = "held" /\ v \in Held /\ data \in Inputs /\ mErr = "nil"
  /\ v2 = IntV(0) /\ uErr = "nil"
  /\ w = <<>> /\ b = <<>> /\ encErr = "nil" /\ encLog = <<>>
  /\ r = <<>> /\ off = 0 /\ docs = <<>> /\ calls = 0 /\ fit = TRUE /\ last = NoCall

\* NewEncoder(buf).Encode(v) on an empty buffer, as Marshal does
MarshalHeld ==
  /\ pc = "held"
  /\ LET return(e) ==
           /\ w' = e.w
           /\ b' = e.b
           /\ encErr' = e.err
     IN  return(Encode(impl, <<>>, <<>>, v))
  /\ pc' = "marshalled"
  /\ UNCHANGED <<impl, encLog, decVars, v, data, mErr, v2, uErr>>

\* err := NewDecoder(bytes.NewReader(data)).Decode(&v): v2 is v after the
\* call and off the number of bytes the Decoder consumed
DecodeInto ==
  /\ pc \in {"held", "marshalled"}
  /\ LET return(res) ==
           /\ v2' = res.val
           /\ uErr' = res.d.err
           /\ off' = res.d.off
     IN  return(DecodeBytes(impl, data, v))
  /\ r' = data
  /\ pc' = "decoded"
  /\ UNCHANGED <<impl, encVars, docs, calls, fit, last, v, data, mErr>>

NextInto == MarshalHeld \/ DecodeInto

SpecInto == InitInto /\ [][NextInto]_vars

----------------------------------------------------------------------------
(* Reading an emitted dictionary back, entry by entry *)

\* the entries from the cursor on: each key with the bytes of its value
RECURSIVE entriesFrom(_)
entriesFrom(d) ==
  LET value(key, end) ==
        IF end.err # "nil" THEN <<>>
        ELSE <<[key |-> key.s, val |-> SubSeq(d.r, key.d.off + 1, end.off)]>>
               \o entriesFrom(end)
      entry(key) == IF key.d.err # "nil" THEN <<>> ELSE value(key, discard(key.d))
      step(nx) == IF nx.d.err # "nil" \/ nx.ok THEN <<>> ELSE entry(decodeString(nx.d))
  IN  step(next(d, "e"))

Entries(bytes) == entriesFrom([r |-> bytes, off |-> 1, err |-> "nil"])

Keys(bytes) ==
  LET keys(es) == [i \in 1..Len(es) |-> es[i].key]
  IN  keys(Entries(bytes))

\* key is among the keys of the emitted dictionary
HasKey(bytes, key) ==
  LET among(ks) == \E j \in 1..Len(ks) : ks[j] = key
  IN  among(Keys(bytes))

RECURSIVE Flatten(_)
Flatten(es) ==
  IF es = <<>> THEN <<>>
  ELSE Itoa(Len(Head(es).key)) \o <<":">> \o Head(es).key \o Head(es).val \o Flatten(Tail(es))

\* the key a revision of the encoder binds a field to
BoundKey(rev, f) ==
  IF rev = "tagged" THEN f.tag
  ELSE IF f.hasTag THEN Split(f.tag)[1] ELSE f.name

\* a value of a shape the codec has a case for, all the way down
RECURSIVE Supported(_)
Supported(x) ==
  CASE x.k \in {"int", "string", "bytes"} -> TRUE
    [] x.k = "slice" -> \A i \in 1..Len(x.xs) : Supported(x.xs[i])
    [] x.k = "struct" -> \A i \in 1..Len(x.fs) : Supported(x.fs[i])
    [] OTHER -> FALSE

\* structural equality: the same shape and the same contents; a nil slice
\* and an allocated empty slice are the same empty list
RECURSIVE StructEq(_, _)
StructEq(x, y) ==
  /\ x.k = y.k
  /\ CASE x.k = "int" -> x.n = y.n
       [] x.k \in {"string", "bytes"} -> x.s = y.s
       [] x.k = "slice" ->
            /\ Len(x.xs) = Len(y.xs)
            /\ \A i \in 1..Len(x.xs) : StructEq(x.xs[i], y.xs[i])
       [] x.k = "struct" ->
            /\ x.typ = y.typ
            /\ \A i \in 1..Len(x.fs) : StructEq(x.fs[i], y.fs[i])
       [] OTHER -> TRUE

\* the empty values of the omitempty option
Empty(x) ==
  CASE x.k = "int" -> x.n = 0
    [] x.k \in {"string", "bytes"} -> Len(x.s) = 0
    [] x.k = "slice" -> Len(x.xs) = 0
    [] OTHER -> FALSE

\* the encodings of the values whose Encode call returned no error, in call order
RECURSIVE Accepted(_, _)
Accepted(rev, log) ==
  IF log = <<>> THEN <<>>
  ELSE (IF Head(log).err = "nil" THEN Marshal(rev, Head(log).x).data ELSE <<>>)
         \o Accepted(rev, Tail(log))

----------------------------------------------------------------------------
(* Claims *)

\* C1: every supported value survives Marshal then Unmarshal into a fresh
\* value of its type: both calls succeed and the result is structurally
\* equal to the value.
C1_RoundTrip ==
  (pc = "done" /\ Supported(v)) =>
    /\ mErr = "nil"
    /\ uErr = "nil"
    /\ StructEq(v, v2)

\* C2: when Encode returns an error the sink holds exactly the bytes it
\* held before the call.
C2_NoPartialOutput ==
  (encLog # <<>> /\ encErr \notin {"nil", "panic"}) =>
    w = encLog[Len(encLog)].before

\* C3: after any sequence of Encode calls on one Encoder the sink holds the
\* concatenation of the encodings of the values whose call succeeded.
C3_SinkIsAcceptedValues == w = Accepted(impl, encLog)

\* C4: on a stream of n values written back to back, the first n Decode
\* calls with fitting targets succeed, yield the values in order and consume
\* one value each, and the call after them returns io.EOF.
C4_StreamingDecode ==
  (calls > 0 /\ fit /\ Len(r) = End(Len(docs))) =>
    IF calls <= Len(docs)
    THEN /\ last.err = "nil"
         /\ last.start = End(calls - 1)
         /\ off = End(calls)
         /\ last.typ = TypeOf(docs[calls]) => last.val = docs[calls]
    ELSE /\ last.err = "EOF"
         /\ off = Len(r)

C4_Witness ==
  /\ Len(docs) = 2 /\ calls = 3 /\ fit /\ Len(r) = End(2)
  /\ docs[1].k = "struct" /\ docs[2].k = "slice" /\ Len(docs[2].xs) = 2
  /\ last.err = "EOF"

\* C5: Decode returns io.EOF only when it is called with no byte left; when
\* the input stops inside a value it fails with another error, and it never
\* succeeds on a value that is cut short.
C5_EofOnlyBetweenValues ==
  (calls > 0 /\ fit) =>
    /\ last.start = Len(r) => last.err = "EOF"
    /\ last.err = "EOF" => last.start = Len(r)
    /\ (calls <= Len(docs) /\ Len(r) < End(calls)) => last.err # "nil"

\* C6: the keys of an emitted dictionary are in ascending byte-wise order,
\* whatever the order of the fields in the struct, and each key is followed
\* by the encoding of a field bound to it.
C6_CanonicalOrder ==
  (pc # "marshal" /\ v.k = "struct" /\ mErr = "nil") =>
    LET canonical(es) ==
          /\ data = <<"d">> \o Flatten(es) \o <<"e">>
          /\ \A i \in 1..(Len(es) - 1) : ~Less(es[i + 1].key, es[i].key)
          /\ \A i \in 1..Len(es) :
               \E j \in 1..Len(v.fs) :
                 /\ BoundKey(impl, StructFields(v.typ)[j]) = es[i].key
                 /\ es[i].val = Marshal(impl, v.fs[j]).data
    IN  canonical(Entries(data))

C6_Witness ==
  /\ pc = "done" /\ v = FizzBuzzV(3, 5)
  /\ data = <<"d", "4", ":", "b", "u", "z", "z", "i", "5", "e",
              "4", ":", "f", "i", "z", "z", "i", "3", "e", "e">>

\* C7: when a dictionary is decoded into a struct that maps only some of its
\* keys, each unmapped value is skipped whole: Decode succeeds, the mapped
\* field gets the value it gets from the dictionary without the other
\* entries, and the cursor stops right after the dictionary.
C7_UnknownKeysSkipped ==
  (calls > 0 /\ fit /\ calls <= Len(docs) /\ End(calls) <= Len(r)
     /\ last.typ = StructT("Fizz") /\ docs[calls].k = "struct") =>
    LET same(fizz, alone) ==
          /\ last.err = "nil"
          /\ alone.d.err = "nil"
          /\ last.val = alone.val
          /\ last.val.fs[1] = fizz
          /\ off = End(calls)
        mapped(fizz) ==
          same(fizz, Unmarshal(Marshal("fallback", StructV("Fizz", <<fizz>>)).data,
                               Zero(StructT("Fizz"))))
    IN  mapped(IF docs[calls].typ = "Wide" THEN docs[calls].fs[3] ELSE docs[calls].fs[1])

C7_Witness ==
  /\ calls = 2 /\ fit /\ Len(docs) = 2 /\ End(2) <= Len(r)
  /\ last.typ = StructT("Fizz") /\ docs[2].k = "struct" /\ docs[2].typ = "Wide"
  /\ last.err = "nil" /\ last.val.fs[1] = IntV(3)

\* C8: a field with the omitempty option is left out of the dictionary when
\* its value is 0, an empty string or a slice of length 0, nil or allocated,
\* and is in it otherwise.
C8_OmitEmpty ==
  (pc # "marshal" /\ impl = "fallback" /\ v.k = "struct" /\ v.typ = "Opt" /\ mErr = "nil") =>
    \A i \in 1..Len(v.fs) :
      HasKey(data, Split(StructFields("Opt")[i].tag)[1]) <=> ~Empty(v.fs[i])

\* C9: a field without a bencode tag is encoded under its declared name, and
\* Decode stores the value of that key into the field.
C9_NameFallback ==
  (pc = "done" /\ v.k = "struct" /\ v.typ = "Group") =>
    /\ mErr = "nil"
    /\ Keys(data) = <<<<"I", "D">>, <<"N", "a", "m", "e">>>>
    /\ uErr = "nil"
    /\ v2 = v

\* C10: a tag with an empty name and options only keeps the declared field
\* name as the key; the key is never the empty string.
C10_EmptyTagNameKeepsFieldName ==
  (pc = "done" /\ impl = "fallback" /\ v.k = "struct" /\ v.typ = "Field"
     /\ v.fs[1].n # 0 /\ mErr = "nil") =>
    /\ HasKey(data, <<"F", "i", "e", "l", "d">>)
    /\ ~HasKey(data, <<>>)
    /\ uErr = "nil"
    /\ v2 = v

\* C11: after a successful Decode of a list into a slice that already held
\* elements, the slice holds the elements of the list in arrival order and
\* none of its previous ones; the same holds for a slice field of a struct
\* whose key is in the dictionary.
C11_ListDecodeResets ==
  (pc = "decoded" /\ uErr = "nil") =>
    \A x \in WireValues :
      (data = Marshal("fallback", x).data /\ TypeOf(x) = TypeOf(v)) =>
        IF x.k = "slice" THEN v2.xs = x.xs ELSE v2.fs[1].xs = x.fs[1].xs

\* C12: for a struct type with an unexported field, Encode returns no error
\* and emits no entry for the field, and Decode of a dictionary that has the
\* field's name as a key returns no error, skips the value of the key and
\* leaves the field as it was; neither call panics.
C12_UnexportedFieldsLeftOut ==
  (impl = "fallback" /\ v.k = "struct" /\ v.typ = "Priv") =>
    /\ pc = "marshalled" =>
         /\ encErr = "nil"
         /\ ~HasKey(w, <<"p", "r", "i", "v">>)
    /\ (pc = "decoded" /\ Len(data) > 0 /\ HasKey(data, <<"p", "r", "i", "v">>)) =>
         /\ uErr = "nil"
         /\ v2.fs[2] = v.fs[2]
         /\ off = Len(data)

\* the byte c starts the production a target of the shape of x requires
Starts(x, c) ==
  CASE x.k \in {"string", "bytes"} -> IsDigit(c)
    [] x.k = "int" -> c = "i"
    [] x.k = "slice" -> c = "l"
    [] x.k = "struct" -> c = "d"
    [] OTHER -> FALSE

\* C13: when the next byte of the input does not start the production the
\* target requires, Decode fails with a type-mismatch error, which is not
\* io.EOF and not an error of the length parse, and consumes no byte.
C13_TypeMismatch ==
  (pc = "decoded" /\ impl = "fallback" /\ Len(data) > 0 /\ ~Starts(v, data[1])) =>
    /\ uErr \notin {"nil", "EOF", "invalid syntax", "panic"}
    /\ off = 0

\* the length an input declares before its first colon
Declared(bytes) ==
  LET parse(rb) == Atoi(SubSeq(rb.s, 1, Len(rb.s) - 1)).n
  IN  parse(ReadBytes([r |-> bytes, off |-> 0, err |-> "nil"], ":"))

\* C14: Decode of a byte string, at top level, as a list element or as a
\* dictionary key or value, returns a value of the declared length or an
\* error; a negative length prefix is an error and never a panic.
C14_LengthPrefixTotal ==
  (pc = "decoded" /\ impl = "fallback" /\ ~(v.k = "struct" /\ v.typ = "Priv")) =>
    /\ uErr # "panic"
    /\ (v.k \in {"string", "bytes"} /\ uErr = "nil") => Len(v2.s) = Declared(data)

====
